---- MODULE Spec2Model ----
(***************************************************************************)
(* A model of the ELF loader of src/bpf/bpf_load.c: load_bpf_file and the  *)
(* functions it calls (get_sec, load_maps, parse_relo_and_apply,           *)
(* load_and_attach), with the kernel and the tracing control files as a    *)
(* nondeterministic environment.  Every call into the environment is one   *)
(* step of the model.                                                      *)
(***************************************************************************)
EXTENDS Integers, Sequences, FiniteSets, TLC

(***************************************************************************)
(* Bounds of the explored objects.                                         *)
(***************************************************************************)
MaxMaps == 3
MaxRels == 2
MaxLoads == 2

(***************************************************************************)
(* Program constants.                                                      *)
(***************************************************************************)
LicenseLen      == 128   \* static char license[128]
ProcessedSecLen == 128   \* static bool processed_sec[128]
MapFdLen        == 32    \* int map_fd[32]
ProgFdLen       == 32    \* int prog_fd[32]
EventFdLen      == 32    \* int event_fd[32]
BufLen          == 256   \* char buf[256]
MapDefSize      == 20    \* sizeof(struct bpf_map_def): five 32-bit fields
InsnSize        == 8     \* sizeof(struct bpf_insn)
IntSize         == 4     \* sizeof(int)
RelEntSize      == 16    \* sh_entsize of an SHT_REL section (Elf64_Rel)
BPF_LD_IMM_DW   == 24    \* BPF_LD | BPF_IMM | BPF_DW = 0x18
BPF_EXIT_INSN   == 149   \* BPF_JMP | BPF_EXIT = 0x95
BPF_PSEUDO_MAP_FD       == 1
BPF_MAP_TYPE_HASH       == 1
BPF_MAP_TYPE_PROG_ARRAY == 3
BPF_PROG_TYPE_KPROBE    == 2
SHT_PROGBITS == 1
SHT_SYMTAB   == 2
SHT_REL      == 9
EPERM  == 1
EINVAL == 22

(***************************************************************************)
(* Section names and C strings: sequences of characters.                   *)
(***************************************************************************)
S_license    == <<"l","i","c","e","n","s","e">>
S_version    == <<"v","e","r","s","i","o","n">>
S_maps       == <<"m","a","p","s">>
S_kprobe     == <<"k","p","r","o","b","e","/">>
S_kretprobe  == <<"k","r","e","t","p","r","o","b","e","/">>
S_tracepoint == <<"t","r","a","c","e","p","o","i","n","t","/">>
S_xdp        == <<"x","d","p">>
S_perf_event == <<"p","e","r","f","_","e","v","e","n","t">>
S_socket     == <<"s","o","c","k","e","t">>
S_symtab     == <<".","s","y","m","t","a","b">>
S_text       == <<".","t","e","x","t">>
S_rel        == <<".","r","e","l">>
S_f          == <<"f">>
S_g          == <<"g">>

\* strncmp(s, p, Len(p)) == 0 and memcmp(s, p, Len(p)) == 0 on a
\* NUL-terminated s: the first Len(p) characters of s are p.
HasPrefix(s, p) ==
    /\ Len(s) >= Len(p)
    /\ SubSeq(s, 1, Len(p)) = p

\* event += n
Strip(s, n) == SubSeq(s, n + 1, Len(s))

\* The six name tests of load_bpf_file before load_and_attach is called.
Recognized(name) ==
    \/ HasPrefix(name, S_kprobe)
    \/ HasPrefix(name, S_kretprobe)
    \/ HasPrefix(name, S_tracepoint)
    \/ HasPrefix(name, S_xdp)
    \/ HasPrefix(name, S_perf_event)
    \/ HasPrefix(name, S_socket)


(***************************************************************************)
(* The object file: the sections 1 .. e_shnum-1 as libelf presents them.   *)
(*   name    section name (elf_strptr)                                     *)
(*   type    sh_type                                                       *)
(*   size    sh_size = d_size, in bytes                                    *)
(*   info    sh_info (the target section of an SHT_REL section)            *)
(*   entsize sh_entsize                                                    *)
(*   bytes   payload of a license section                                  *)
(*   word    payload of a version section                                  *)
(*   defs    a maps section as struct bpf_map_def records                  *)
(*   code    a program section as opcodes of struct bpf_insn records       *)
(*   rels    an SHT_REL section: r_offset and symbol index per entry       *)
(*   syms    an SHT_SYMTAB section: st_value per symbol                    *)
(***************************************************************************)
Sec(name, type, size) ==
    [name |-> name, type |-> type, size |-> size, info |-> 0, entsize |-> 0,
     bytes |-> <<>>, word |-> 0, defs |-> <<>>, code |-> <<>>,
     rels |-> <<>>, syms |-> <<>>]

MapDef(type, k) ==
    [type |-> type, key_size |-> 4, value_size |-> 8 * k,
     max_entries |-> 10, map_flags |-> 0]

Insn(code) == [code |-> code, src_reg |-> 0, imm |-> 0]

VARIABLES
    elf,            \* the object file being loaded (never changes)
    insn,           \* the instruction buffers d_buf of the sections
    license,        \* static char license[128]
    kern_version,   \* static int kern_version
    processed_sec,  \* static bool processed_sec[128], as the set of true indices
    map_fd,         \* int map_fd[32]
    prog_fd,        \* int prog_fd[32]
    event_fd,       \* int event_fd[32]
    prog_cnt,       \* int prog_cnt
    prog_array_fd,  \* int prog_array_fd
    symbols,        \* Elf_Data *symbols: the symbol table section, 0 for NULL
    pc,             \* position in load_bpf_file and its callees
    i,              \* load_bpf_file: int i
    ret,            \* return value of load_bpf_file, -1 while running
    mi,             \* load_maps: int i
    ri,             \* parse_relo_and_apply: int i
    la,             \* load_and_attach: its arguments and locals
    nextfd,         \* kernel: the next descriptor it hands out
    errno,          \* errno
    rlimit,         \* kernel: RLIMIT_MEMLOCK of the process
    kprobe_events,  \* tracing: the lines of kprobe_events
    creates,        \* history: the bpf_create_map calls
    patches,        \* history: the instructions patched
    calls,          \* history: the load_and_attach calls (at: the value of i)
    submits,        \* history: the bpf_prog_load calls
    log,            \* history: the environment calls of the running load_and_attach
    load_cnt,       \* the number of load_bpf_file calls of the process so far
    obj_fd,         \* load_bpf_file: int fd, the descriptor of the object file
    closed          \* kernel: the descriptors closed

globals == <<license, kern_version, processed_sec, map_fd, prog_fd, event_fd,
             prog_cnt, prog_array_fd>>
locals  == <<symbols, pc, i, ret, mi, ri, la>>
env     == <<nextfd, errno, rlimit, kprobe_events>>
history == <<creates, patches, calls, submits, log>>
process == <<load_cnt, obj_fd, closed>>
vars    == <<elf, insn, globals, locals, env, history, process>>

e_shnum == Len(elf) + 1

\* get_sec(elf, k, ...) != 0: no such section, or a section of size zero
\* (section 0 is the null section).
GetSecFails(k) ==
    IF k \in 1..Len(elf) THEN elf[k].size = 0 ELSE TRUE

\* processed_sec[k] = true; a store beyond the table leaves the table as it is
MarkProcessed(ps, k) ==
    IF k < ProcessedSecLen THEN ps \cup {k} ELSE ps

\* memcpy(dst, src, Len(src)) onto a buffer given by its written prefix
Memcpy(dst, src) ==
    [k \in 1..(IF Len(src) > Len(dst) THEN Len(src) ELSE Len(dst)) |->
        IF k <= Len(src) THEN src[k] ELSE dst[k]]

NoCall == [sec |-> 0, event |-> <<>>, fd |-> 0, efd |-> 0, id |-> 0,
           buf |-> <<>>, back |-> "none", rv |-> 0]

\* the call load_and_attach(name of section sec, its instructions, its size)
Call(sec, back) ==
    /\ la' = [NoCall EXCEPT !.sec = sec, !.event = elf[sec].name, !.back = back]
    /\ calls' = Append(calls, [sec |-> sec, pass |-> back, at |-> i])
    /\ log' = <<>>
    /\ pc' = "la_entry"

(***************************************************************************)
(* load_bpf_file, lines 254-270: open the object, clear all kprobes.       *)
(***************************************************************************)
LoadStart ==
    /\ pc = "start"
    /\ \E outcome \in {"open_fails", "elf_fails", "ok"} :
          CASE outcome = "open_fails" ->
                 /\ obj_fd' = -1
                 /\ ret' = 1 /\ pc' = "done"
                 /\ UNCHANGED <<nextfd, kprobe_events, i>>
            [] outcome = "elf_fails" ->
                 /\ obj_fd' = nextfd
                 /\ nextfd' = nextfd + 1
                 /\ ret' = 1 /\ pc' = "done"
                 /\ UNCHANGED <<kprobe_events, i>>
            [] outcome = "ok" ->
                 /\ obj_fd' = nextfd
                 /\ nextfd' = nextfd + 1
                 /\ kprobe_events' = <<>>
                 /\ i' = 1 /\ pc' = "scan"
                 /\ UNCHANGED ret
    /\ load_cnt' = load_cnt + 1
    /\ UNCHANGED <<elf, insn, globals, symbols, mi, ri, la, errno, rlimit, history,
                   closed>>

(***************************************************************************)
(* First pass, lines 272-301: license, version, maps, symbol table.        *)
(***************************************************************************)
\* ScanEnd leaving the first pass one section early
ScanEndEarly ==
    /\ pc = "scan" /\ ~(i < e_shnum - 1)
    /\ i' = 1 /\ pc' = "relo"
    /\ UNCHANGED <<elf, process, insn, globals, symbols, ret, mi, ri, la, env, history>>

ScanEnd ==
    /\ pc = "scan" /\ ~(i < e_shnum)
    /\ i' = 1 /\ pc' = "relo"
    /\ UNCHANGED <<elf, process, insn, globals, symbols, ret, mi, ri, la, env, history>>

ScanSkip ==
    /\ pc = "scan" /\ i < e_shnum /\ GetSecFails(i)
    /\ i' = i + 1
    /\ UNCHANGED <<elf, process, insn, globals, symbols, pc, ret, mi, ri, la, env, history>>

\* the int that the bytes "xxx\0" make
OverrunWord == 7895160

\* line 285 with d_size > sizeof(license): memcpy writes behind the buffer,
\* into the object the linker has put there.  kern_version, declared next,
\* is that object or is not: it takes the bytes written or keeps its value.
Overrun(old, src) ==
    IF Len(src) > LicenseLen THEN {old, OverrunWord} ELSE {old}

ScanLicense ==
    /\ pc = "scan" /\ i < e_shnum /\ ~GetSecFails(i)
    /\ elf[i].name = S_license
    /\ processed_sec' = MarkProcessed(processed_sec, i)
    /\ license' = Memcpy(license, elf[i].bytes)
    /\ kern_version' \in Overrun(kern_version, elf[i].bytes)
    /\ i' = i + 1
    /\ UNCHANGED <<elf, process, insn, map_fd, prog_fd, event_fd, prog_cnt,
                   prog_array_fd, symbols, pc, ret, mi, ri, la, env, history>>

\* VersionSizeBad accepting a payload shorter than an int
VersionSizeTooLong(size) == size > IntSize

\* data->d_size != sizeof(int)
VersionSizeBad(size) == size # IntSize

ScanVersion ==
    /\ pc = "scan" /\ i < e_shnum /\ ~GetSecFails(i)
    /\ elf[i].name # S_license /\ elf[i].name = S_version
    /\ processed_sec' = MarkProcessed(processed_sec, i)
    /\ IF VersionSizeBad(elf[i].size)
       THEN /\ ret' = 1 /\ pc' = "done"
            /\ UNCHANGED <<kern_version, i>>
       ELSE /\ kern_version' = elf[i].word
            /\ i' = i + 1
            /\ UNCHANGED <<ret, pc>>
    /\ UNCHANGED <<elf, process, insn, license, map_fd, prog_fd, event_fd, prog_cnt,
                   prog_array_fd, symbols, mi, ri, la, env, history>>

ScanMaps ==
    /\ pc = "scan" /\ i < e_shnum /\ ~GetSecFails(i)
    /\ elf[i].name \notin {S_license, S_version} /\ elf[i].name = S_maps
    /\ processed_sec' = MarkProcessed(processed_sec, i)
    /\ mi' = 0 /\ pc' = "load_maps"
    /\ UNCHANGED <<elf, process, insn, license, kern_version, map_fd, prog_fd, event_fd,
                   prog_cnt, prog_array_fd, symbols, i, ret, ri, la, env, history>>

ScanSymtab ==
    /\ pc = "scan" /\ i < e_shnum /\ ~GetSecFails(i)
    /\ elf[i].name \notin {S_license, S_version, S_maps}
    /\ elf[i].type = SHT_SYMTAB
    /\ symbols' = i
    /\ i' = i + 1
    /\ UNCHANGED <<elf, process, insn, globals, pc, ret, mi, ri, la, env, history>>

\* ScanOther handing a program section to load_and_attach in the first pass
ScanOtherLoads ==
    /\ pc = "scan" /\ i < e_shnum /\ ~GetSecFails(i)
    /\ elf[i].name \notin {S_license, S_version, S_maps}
    /\ elf[i].type # SHT_SYMTAB
    /\ IF Recognized(elf[i].name)
       THEN Call(i, "scan") /\ UNCHANGED i
       ELSE i' = i + 1 /\ UNCHANGED <<pc, la, calls, log>>
    /\ UNCHANGED <<elf, process, insn, globals, symbols, ret, mi, ri, env, creates,
                   patches, submits>>

ScanOther ==
    /\ pc = "scan" /\ i < e_shnum /\ ~GetSecFails(i)
    /\ elf[i].name \notin {S_license, S_version, S_maps}
    /\ elf[i].type # SHT_SYMTAB
    /\ i' = i + 1
    /\ UNCHANGED <<elf, process, insn, globals, symbols, pc, ret, mi, ri, la, env, history>>

(***************************************************************************)
(* load_maps, lines 169-190, called for section i.                         *)
(***************************************************************************)
\* len / sizeof(struct bpf_map_def)
NumMaps(len) == len \div MapDefSize

\* MapFdStore with the handle stored one slot too far
MapFdStoreOffByOne(mf, k, v) ==
    IF k + 1 < MapFdLen THEN [mf EXCEPT ![k + 1] = v] ELSE mf

\* map_fd[k] = v; a store beyond the table leaves the table as it is
MapFdStore(mf, k, v) ==
    IF k < MapFdLen THEN [mf EXCEPT ![k] = v] ELSE mf

\* ProgArrayAfter keeping the first program-array map instead of the last
ProgArrayFirstWins(old, def, fd) ==
    IF def.type = BPF_MAP_TYPE_PROG_ARRAY /\ old = -1 THEN fd ELSE old

\* lines 186-187
ProgArrayAfter(old, def, fd) ==
    IF def.type = BPF_MAP_TYPE_PROG_ARRAY THEN fd ELSE old

\* CreateFailed going on with the next definition instead of returning
CreateFailedContinue ==
    /\ mi' = mi + 1
    /\ UNCHANGED <<ret, pc, i>>

\* lines 180-184: what load_maps does when bpf_create_map returned fd < 0,
\* and load_bpf_file with its result (lines 296-297)
CreateFailed ==
    /\ ret' = 1 /\ pc' = "done"
    /\ UNCHANGED <<mi, i>>

CreateMap ==
    /\ pc = "load_maps" /\ mi < NumMaps(elf[i].size)
    /\ \E ok \in BOOLEAN :
          LET def == elf[i].defs[mi + 1]
              fd  == IF ok THEN nextfd ELSE -1
          IN  /\ creates' = Append(creates, [index |-> mi, def |-> def, fd |-> fd])
              /\ map_fd' = MapFdStore(map_fd, mi, fd)
              /\ IF fd < 0
                 THEN /\ errno' = EINVAL
                      /\ CreateFailed
                      /\ UNCHANGED <<prog_array_fd, nextfd>>
                 ELSE /\ nextfd' = nextfd + 1
                      /\ prog_array_fd' = ProgArrayAfter(prog_array_fd, def, fd)
                      /\ mi' = mi + 1
                      /\ UNCHANGED <<errno, ret, pc, i>>
    /\ UNCHANGED <<elf, process, insn, license, kern_version, processed_sec, prog_fd,
                   event_fd, prog_cnt, symbols, ri, la, rlimit, kprobe_events,
                   patches, calls, submits, log>>

LoadMapsReturn ==
    /\ pc = "load_maps" /\ ~(mi < NumMaps(elf[i].size))
    /\ i' = i + 1 /\ pc' = "scan"
    /\ UNCHANGED <<elf, process, insn, globals, symbols, ret, mi, ri, la, env, history>>

(***************************************************************************)
(* Second pass, lines 303-331: the relocation sections.                    *)
(***************************************************************************)
ReloEnd ==
    /\ pc = "relo" /\ ~(i < e_shnum)
    /\ i' = 1 /\ pc' = "resid"
    /\ UNCHANGED <<elf, process, insn, globals, symbols, ret, mi, ri, la, env, history>>

ReloSkip ==
    /\ pc = "relo" /\ i < e_shnum
    /\ \/ GetSecFails(i)
       \/ elf[i].type # SHT_REL
    /\ i' = i + 1
    /\ UNCHANGED <<elf, process, insn, globals, symbols, pc, ret, mi, ri, la, env, history>>

\* lines 311-313: the target section cannot be read
ReloNoTarget ==
    /\ pc = "relo" /\ i < e_shnum /\ ~GetSecFails(i)
    /\ elf[i].type = SHT_REL
    /\ GetSecFails(elf[i].info)
    /\ i' = i + 1
    /\ UNCHANGED <<elf, process, insn, globals, symbols, pc, ret, mi, ri, la, env, history>>

\* lines 317-318
ReloMark(ps, rel, target) == MarkProcessed(MarkProcessed(ps, target), rel)

ReloBegin ==
    /\ pc = "relo" /\ i < e_shnum /\ ~GetSecFails(i)
    /\ elf[i].type = SHT_REL
    /\ ~GetSecFails(elf[i].info)
    /\ processed_sec' = ReloMark(processed_sec, i, elf[i].info)
    /\ ri' = 0 /\ pc' = "parse"
    /\ UNCHANGED <<elf, process, insn, license, kern_version, map_fd, prog_fd, event_fd,
                   prog_cnt, prog_array_fd, symbols, i, ret, mi, la, env, history>>

(***************************************************************************)
(* parse_relo_and_apply, lines 215-243, for relocation section i.          *)
(***************************************************************************)
\* shdr->sh_size / shdr->sh_entsize
NumRels(sec) == sec.size \div sec.entsize

\* rel.r_offset / sizeof(struct bpf_insn)
InsnIdx(rel) == rel.off \div InsnSize

\* sym.st_value / sizeof(struct bpf_map_def)
MapIdx(st_value) == st_value \div MapDefSize

\* gelf_getsym(symbols, GELF_R_SYM(rel.r_info), &sym): the values sym.st_value
\* can hold afterwards.  Without a symbol table, or for a symbol index outside
\* it, gelf_getsym fails and sym keeps what the stack held.
SymValues(rel) ==
    IF symbols # 0 /\ rel.sym < Len(elf[symbols].syms)
    THEN {elf[symbols].syms[rel.sym + 1]}
    ELSE {0, MapDefSize * MapFdLen}

\* insn[idx].code: the opcodes the read can yield.  Beyond the section's
\* data the read yields whatever follows the section in memory.
CodeValues(buf, idx) ==
    IF idx < Len(buf) THEN {buf[idx + 1].code} ELSE {BPF_LD_IMM_DW, 0}

\* map_fd[k]: the values the read can yield (beyond the table: any memory)
MapFdValues(k) ==
    IF k < MapFdLen THEN {map_fd[k]} ELSE {0, -1}

\* InvalidRelo without the test of the opcode
InvalidReloNever(code) == FALSE

\* line 233
InvalidRelo(code) == code # BPF_LD_IMM_DW

\* lines 238-239; a store beyond the section's data leaves the data as they are
Patch(buf, idx, imm) ==
    IF idx < Len(buf)
    THEN [buf EXCEPT ![idx + 1] = [@ EXCEPT !.src_reg = BPF_PSEUDO_MAP_FD,
                                            !.imm = imm]]
    ELSE buf

ParseEntry ==
    /\ pc = "parse" /\ ri < NumRels(elf[i])
    /\ LET rel == elf[i].rels[ri + 1]
           t   == elf[i].info
           idx == InsnIdx(rel)
       IN  \E st \in SymValues(rel), code \in CodeValues(insn[t], idx) :
           \E imm \in MapFdValues(MapIdx(st)) :
              IF InvalidRelo(code)
              THEN /\ i' = i + 1 /\ pc' = "relo"
                   /\ UNCHANGED <<insn, ri, patches>>
              ELSE /\ insn' = [insn EXCEPT ![t] = Patch(@, idx, imm)]
                   /\ patches' = Append(patches,
                          [rel |-> i, sec |-> t, idx |-> idx,
                           map |-> MapIdx(st), imm |-> imm])
                   /\ ri' = ri + 1
                   /\ UNCHANGED <<i, pc>>
    /\ UNCHANGED <<elf, process, globals, symbols, ret, mi, la, env, creates, calls,
                   submits, log>>

\* lines 323-329
ParseDone ==
    /\ pc = "parse" /\ ~(ri < NumRels(elf[i]))
    /\ IF Recognized(elf[elf[i].info].name)
       THEN /\ Call(elf[i].info, "relo")
            /\ UNCHANGED i
       ELSE /\ i' = i + 1 /\ pc' = "relo"
            /\ UNCHANGED <<la, calls, log>>
    /\ UNCHANGED <<elf, process, insn, globals, symbols, ret, mi, ri, env, creates,
                   patches, submits>>

(***************************************************************************)
(* Third pass, lines 333-352: the programs that use no maps.               *)
(***************************************************************************)
\* line 336
Processed(k) == k \in processed_sec

\* lines 351-352: close(fd); return 0
ResidEnd ==
    /\ pc = "resid" /\ ~(i < e_shnum)
    /\ closed' = closed \cup {obj_fd}
    /\ ret' = 0 /\ pc' = "done"
    /\ UNCHANGED <<elf, insn, globals, symbols, i, mi, ri, la, env, history,
                   load_cnt, obj_fd>>

ResidSkip ==
    /\ pc = "resid" /\ i < e_shnum
    /\ \/ Processed(i)
       \/ GetSecFails(i)
       \/ ~Recognized(elf[i].name)
    /\ i' = i + 1
    /\ UNCHANGED <<elf, process, insn, globals, symbols, pc, ret, mi, ri, la, env, history>>

ResidLoad ==
    /\ pc = "resid" /\ i < e_shnum
    /\ ~Processed(i) /\ ~GetSecFails(i) /\ Recognized(elf[i].name)
    /\ Call(i, "resid")
    /\ UNCHANGED <<elf, process, insn, globals, symbols, i, ret, mi, ri, env, creates,
                   patches, submits>>

(***************************************************************************)
(* load_and_attach, lines 35-167, called for section la.sec.               *)
(***************************************************************************)
IsKprobe(name)     == HasPrefix(name, S_kprobe)
IsKretprobe(name)  == HasPrefix(name, S_kretprobe)
IsTracepoint(name) == HasPrefix(name, S_tracepoint)
IsXdp(name)        == HasPrefix(name, S_xdp)
IsPerfEvent(name)  == HasPrefix(name, S_perf_event)

Logged(op, res) == Append(log, [op |-> op, res |-> res])

\* return rv from load_and_attach
Return(rv) ==
    /\ la' = [la EXCEPT !.rv = rv]
    /\ pc' = "la_return"

\* LaEntry without the test of the kind of event
LaEntryAnyName ==
    /\ pc = "la_entry"
    /\ pc' = "la_load"
    /\ UNCHANGED <<elf, process, insn, globals, symbols, i, ret, mi, ri, la, env,
                   history>>

\* lines 52-57
LaEntry ==
    /\ pc = "la_entry"
    /\ IF IsKprobe(elf[la.sec].name) \/ IsKretprobe(elf[la.sec].name)
       THEN pc' = "la_load" /\ UNCHANGED la
       ELSE Return(-1)
    /\ UNCHANGED <<elf, process, insn, globals, symbols, i, ret, mi, ri, env, history>>

\* NeedsRlimit without the test of errno
NeedsRlimitAnyErrno(fd, err) == fd < 0

\* line 60
NeedsRlimit(fd, err) == fd < 0 /\ err = EPERM

\* bpf_prog_load(prog_type, prog, size, license, kern_version) of line 59
\* (first) and of line 76 (the second try)
ProgLoad(first) ==
    \E res \in {0, EPERM, EINVAL} :
       LET fd == IF res = 0 THEN nextfd ELSE -1
           err == IF res = 0 THEN errno ELSE res
       IN  /\ submits' = Append(submits,
                  [sec |-> la.sec, type |-> BPF_PROG_TYPE_KPROBE,
                   prog |-> insn[la.sec], license |-> license,
                   kern_version |-> kern_version, fd |-> fd])
           /\ log' = Logged("prog_load", [fd |-> fd, err |-> res])
           /\ la' = [la EXCEPT !.fd = fd]
           /\ nextfd' = IF res = 0 THEN nextfd + 1 ELSE nextfd
           /\ errno' = err
           /\ pc' = IF first /\ NeedsRlimit(fd, err)
                    THEN "la_getrlimit" ELSE "la_check"

LaLoad ==
    /\ pc = "la_load"
    /\ ProgLoad(TRUE)
    /\ UNCHANGED <<elf, process, insn, globals, symbols, i, ret, mi, ri, rlimit,
                   kprobe_events, creates, patches, calls>>

\* line 72
LaGetrlimit ==
    /\ pc = "la_getrlimit"
    /\ \E ok \in BOOLEAN :
          /\ log' = Logged("getrlimit", ok)
          /\ errno' = IF ok THEN errno ELSE EINVAL
          /\ pc' = IF ok THEN "la_setrlimit" ELSE "la_check"
    /\ UNCHANGED <<elf, process, insn, globals, symbols, i, ret, mi, ri, la, nextfd,
                   rlimit, kprobe_events, creates, patches, calls, submits>>

\* lines 73-81
LaSetrlimit ==
    /\ pc = "la_setrlimit"
    /\ \E ok \in BOOLEAN :
          /\ log' = Logged("setrlimit", ok)
          /\ IF ok
             THEN /\ rlimit' = [cur |-> "RLIM_INFINITY", max |-> "RLIM_INFINITY"]
                  /\ pc' = "la_retry"
                  /\ UNCHANGED <<la, errno>>
             ELSE /\ errno' = EPERM
                  /\ Return(-1)
                  /\ UNCHANGED rlimit
    /\ UNCHANGED <<elf, process, insn, globals, symbols, i, ret, mi, ri, nextfd,
                   kprobe_events, creates, patches, calls, submits>>

\* line 76
LaRetry ==
    /\ pc = "la_retry"
    /\ ProgLoad(FALSE)
    /\ UNCHANGED <<elf, process, insn, globals, symbols, i, ret, mi, ri, rlimit,
                   kprobe_events, creates, patches, calls>>

\* ProgFdStore with the handle stored one slot too far
ProgFdStoreOffByOne(pf, k, v) ==
    IF k + 1 < ProgFdLen THEN [pf EXCEPT ![k + 1] = v] ELSE pf

\* prog_fd[prog_cnt++] = fd; a store beyond the table leaves the table as it is
ProgFdStore(pf, k, v) ==
    IF k < ProgFdLen THEN [pf EXCEPT ![k] = v] ELSE pf

\* EmptyEvent without the test of the name
EmptyEventNever(event) == FALSE

\* lines 101 and 129: *event == 0
EmptyEvent(event) == Len(event) = 0

\* lines 96-99 and 127: event += 7, 10 or 11
Stripped(name) ==
    IF IsKprobe(name) THEN Strip(name, Len(S_kprobe))
    ELSE IF IsKretprobe(name) THEN Strip(name, Len(S_kretprobe))
    ELSE Strip(name, Len(S_tracepoint))

\* lines 85-104 and 126-137, up to the next call into the environment
LaCheck ==
    /\ pc = "la_check"
    /\ LET name == elf[la.sec].name
       IN  IF la.fd < 0
           THEN /\ Return(-1)
                /\ UNCHANGED <<prog_fd, prog_cnt>>
           ELSE /\ prog_fd' = ProgFdStore(prog_fd, prog_cnt, la.fd)
                /\ prog_cnt' = prog_cnt + 1
                /\ IF IsXdp(name) \/ IsPerfEvent(name)
                   THEN Return(0)
                   ELSE IF ~(IsKprobe(name) \/ IsKretprobe(name) \/ IsTracepoint(name))
                   THEN pc' = "la_open" /\ UNCHANGED la
                   ELSE IF EmptyEvent(Stripped(name))
                   THEN /\ la' = [la EXCEPT !.event = Stripped(name), !.rv = -1]
                        /\ pc' = "la_return"
                   ELSE /\ la' = [la EXCEPT !.event = Stripped(name)]
                        /\ pc' = IF IsKprobe(name) \/ IsKretprobe(name)
                                 THEN "la_system" ELSE "la_open"
    /\ UNCHANGED <<elf, process, insn, license, kern_version, processed_sec, map_fd,
                   event_fd, prog_array_fd, symbols, i, ret, mi, ri, env, history>>

\* lines 106-110: the line the command appends to kprobe_events
ProbeLine(name, event) ==
    LET c == IF IsKprobe(name) THEN <<"p">> ELSE <<"r">>
    IN  c \o <<":">> \o c \o event \o <<" ">> \o event

\* lines 118-125: events/kprobes/<p|r><event>/id
ProbeName(name, event) ==
    (IF IsKprobe(name) THEN <<"p">> ELSE <<"r">>) \o event

\* lines 111-125: system(buf); "neg" is a return value < 0, "status" the exit
\* status of a command that failed, which is > 0
LaSystem ==
    /\ pc = "la_system"
    /\ \E res \in {"neg", "status", "zero"} :
          LET name == elf[la.sec].name
              line == ProbeLine(name, la.event)
          IN  /\ log' = Logged("system", [line |-> line, res |-> res])
              /\ kprobe_events' = IF res = "zero"
                                  THEN Append(kprobe_events, line)
                                  ELSE kprobe_events
              /\ IF res = "neg"
                 THEN Return(-1)
                 ELSE /\ la' = [la EXCEPT !.buf = ProbeName(name, la.event)]
                      /\ pc' = "la_open"
    /\ UNCHANGED <<elf, process, insn, globals, symbols, i, ret, mi, ri, nextfd, errno,
                   rlimit, creates, patches, calls, submits>>

\* the kprobe events that exist: the name between "p:" or "r:" and the
\* blank of every line of kprobe_events
EventOfLine(line) ==
    LET blank == CHOOSE k \in 1..Len(line) :
                    line[k] = " " /\ \A j \in 1..(k - 1) : line[j] # " "
    IN  SubSeq(line, 3, blank - 1)

Registered == {EventOfLine(kprobe_events[k]) : k \in 1..Len(kprobe_events)}

\* lines 139-143: open(buf, O_RDONLY, 0) of the id file of the event
LaOpen ==
    /\ pc = "la_open"
    /\ \E ok \in {FALSE} \cup {la.buf \in Registered} :
          /\ log' = Logged("open", ok)
          /\ IF ok
             THEN /\ la' = [la EXCEPT !.efd = nextfd]
                  /\ nextfd' = nextfd + 1
                  /\ pc' = "la_read"
             ELSE /\ Return(-1)
                  /\ UNCHANGED nextfd
    /\ UNCHANGED <<elf, process, insn, globals, symbols, i, ret, mi, ri, errno, rlimit,
                   kprobe_events, creates, patches, calls, submits>>

\* line 146: err < 0 || err >= sizeof(buf)
ReadFailed(err) == err < 0 \/ err >= BufLen

\* lines 145-155: read(efd, buf, sizeof(buf)), close(efd), atoi(buf);
\* the file holds the decimal identifier, here 1 to 3 digits and a newline
LaRead ==
    /\ pc = "la_read"
    /\ \E err \in {-1, 2, BufLen} :
          /\ log' = Logged("read", err)
          /\ IF ReadFailed(err)
             THEN Return(-1) /\ UNCHANGED closed
             ELSE /\ closed' = closed \cup {la.efd}
                  /\ la' = [la EXCEPT !.id = 7]
                  /\ pc' = "la_perf"
    /\ UNCHANGED <<elf, insn, globals, symbols, i, ret, mi, ri, env, creates,
                   patches, calls, submits, load_cnt, obj_fd>>

\* event_fd[prog_cnt - 1] = efd; a store beyond the table leaves the table as it is
EventFdStore(ef, k, v) ==
    IF k \in 0..(EventFdLen - 1) THEN [ef EXCEPT ![k] = v] ELSE ef

\* lines 157-162: perf_event_open(&attr, -1, 0, -1, 0)
LaPerf ==
    /\ pc = "la_perf"
    /\ \E ok \in BOOLEAN :
          /\ log' = Logged("perf_event_open", [config |-> la.id, ok |-> ok])
          /\ IF ok
             THEN /\ la' = [la EXCEPT !.efd = nextfd]
                  /\ nextfd' = nextfd + 1
                  /\ event_fd' = EventFdStore(event_fd, prog_cnt - 1, nextfd)
                  /\ pc' = "la_enable"
             ELSE /\ Return(-1)
                  /\ UNCHANGED <<nextfd, event_fd>>
    /\ UNCHANGED <<elf, process, insn, license, kern_version, processed_sec, map_fd,
                   prog_fd, prog_cnt, prog_array_fd, symbols, i, ret, mi, ri,
                   errno, rlimit, kprobe_events, creates, patches, calls, submits>>

\* line 163: ioctl(efd, PERF_EVENT_IOC_ENABLE, 0), its result unused
LaEnable ==
    /\ pc = "la_enable"
    /\ \E ok \in BOOLEAN :
          /\ log' = Logged("ioctl_enable", [efd |-> la.efd, ok |-> ok])
    /\ pc' = "la_setbpf"
    /\ UNCHANGED <<elf, process, insn, globals, symbols, i, ret, mi, ri, la, env, creates,
                   patches, calls, submits>>

\* lines 164-166: ioctl(efd, PERF_EVENT_IOC_SET_BPF, fd), its result unused
LaSetBpf ==
    /\ pc = "la_setbpf"
    /\ \E ok \in BOOLEAN :
          /\ log' = Logged("ioctl_set_bpf", [efd |-> la.efd, fd |-> la.fd, ok |-> ok])
    /\ Return(0)
    /\ UNCHANGED <<elf, process, insn, globals, symbols, i, ret, mi, ri, env, creates,
                   patches, calls, submits>>

\* lines 329 and 348: the caller drops the result and goes on with the next section
LaReturn ==
    /\ pc = "la_return"
    /\ pc' = la.back
    /\ i' = i + 1
    /\ la' = NoCall
    /\ log' = <<>>
    /\ UNCHANGED <<elf, process, insn, globals, symbols, ret, mi, ri, env, creates, patches,
                   calls, submits>>

(***************************************************************************)
(* The objects explored.                                                   *)
(***************************************************************************)
SeqsUpTo(S, n) == UNION {[1..k -> S] : k \in 0..n}

LicenseSec == [Sec(S_license, SHT_PROGBITS, 4) EXCEPT !.bytes = <<"G", "P", "L", "NUL">>]

\* a license of sizeof(int) bytes more than the license buffer holds
LongLicenseSec ==
    [Sec(S_license, SHT_PROGBITS, LicenseLen + IntSize) EXCEPT
        !.bytes = [k \in 1..(LicenseLen + IntSize) |->
                      IF k = LicenseLen + IntSize THEN "NUL" ELSE "x"]]

VersionSec(size) == [Sec(S_version, SHT_PROGBITS, size) EXCEPT !.word = 263168]

\* a maps section of the definitions of the given types and rem more bytes
MapsSec(types, rem) ==
    [Sec(S_maps, SHT_PROGBITS, Len(types) * MapDefSize + rem) EXCEPT
        !.defs = [k \in 1..Len(types) |-> MapDef(types[k], k)]]

\* symbol k is at the k-th map definition
SymtabSec ==
    [Sec(S_symtab, SHT_SYMTAB, 24 * (MaxMaps + 1)) EXCEPT
        !.syms = [k \in 1..(MaxMaps + 1) |-> (k - 1) * MapDefSize]]

\* two 16-byte BPF_LD_IMM_DW instructions and an exit
ProgCode == <<BPF_LD_IMM_DW, 0, BPF_LD_IMM_DW, 0, BPF_EXIT_INSN>>

ProgSec(name) ==
    [Sec(name, SHT_PROGBITS, Len(ProgCode) * InsnSize) EXCEPT !.code = ProgCode]

RelSec(info, rels) ==
    [Sec(S_rel, SHT_REL, Len(rels) * RelEntSize) EXCEPT
        !.info = info, !.entsize = RelEntSize, !.rels = rels]

Rel(idx, sym) == [off |-> idx * InsnSize, sym |-> sym]

\* a relocation of an instruction that loads a map, one of an instruction that
\* does not, and one whose symbol lies behind the definitions of a one-map object
GoodRel   == Rel(0, 0)
BadOpRel  == Rel(1, 0)
BadMapRel == Rel(2, 1)

\* a relocation of the instruction behind the last one of the program
OutsideRel == Rel(Len(ProgCode), 0)

MapTypes == {BPF_MAP_TYPE_HASH, BPF_MAP_TYPE_PROG_ARRAY}

\* the maps and the version section in both orders, before one program with
\* one relocation
MapsObjects ==
    {IF first
     THEN <<LicenseSec, VersionSec(vs), MapsSec(types, rem), SymtabSec,
            ProgSec(S_kprobe \o S_f), RelSec(5, <<GoodRel>>)>>
     ELSE <<LicenseSec, MapsSec(types, rem), VersionSec(vs), SymtabSec,
            ProgSec(S_kprobe \o S_f), RelSec(5, <<GoodRel>>)>> :
        first \in BOOLEAN, vs \in {0, 3, IntSize}, rem \in {0, 7},
        types \in SeqsUpTo(MapTypes, MaxMaps)}

\* one map, two programs, two relocation sections, the second for either
\* program or for no section; in the section order of a compiler and reversed
ReloObjects ==
    {IF forward
     THEN <<MapsSec(<<BPF_MAP_TYPE_HASH>>, 0), SymtabSec,
            ProgSec(S_kprobe \o S_f), ProgSec(S_kretprobe \o S_g),
            RelSec(3, relsA), RelSec(IF tB = 0 THEN 0 ELSE 2 + tB, relsB)>>
     ELSE <<RelSec(IF tB = 0 THEN 7 ELSE 5 - tB, relsB), RelSec(4, relsA),
            ProgSec(S_kretprobe \o S_g), ProgSec(S_kprobe \o S_f),
            SymtabSec, MapsSec(<<BPF_MAP_TYPE_HASH>>, 0)>> :
        forward \in BOOLEAN, tB \in 0..2,
        relsA \in SeqsUpTo({GoodRel, BadOpRel, BadMapRel}, MaxRels),
        relsB \in {<<GoodRel>>, <<BadOpRel>>}}

ProgNames ==
    {S_kprobe \o S_f, S_kretprobe \o S_g, S_kprobe, S_kretprobe,
     S_tracepoint \o S_f, S_tracepoint, S_xdp, S_perf_event, S_socket,
     S_text, <<"k", "p", "r", "o", "b", "e">>}

\* one program of every name, without relocations, before and after the
\* license and the version; and one of size zero
NameObjects ==
    {IF first
     THEN <<ProgSec(name), LicenseSec, VersionSec(IntSize)>>
     ELSE <<LicenseSec, VersionSec(IntSize), ProgSec(name)>> :
        first \in BOOLEAN, name \in ProgNames}
    \cup {<<LicenseSec, Sec(S_kprobe \o S_f, SHT_PROGBITS, 0)>>}

\* one map, one program and one relocation of it
OneRelObjects ==
    {<<MapsSec(<<BPF_MAP_TYPE_HASH>>, 0), SymtabSec, ProgSec(S_kprobe \o S_f),
       RelSec(3, <<rel>>)>> : rel \in {GoodRel, BadOpRel, BadMapRel}}

\* a relocation without a symbol table
NoSymtabObjects ==
    {<<LicenseSec, VersionSec(IntSize), Sec(S_text, SHT_PROGBITS, InsnSize),
       MapsSec(<<BPF_MAP_TYPE_HASH>>, 0), ProgSec(S_kprobe \o S_f),
       RelSec(5, <<GoodRel>>)>>}

\* a kprobe program before a second program of every kind
SecondNames ==
    {S_kretprobe \o S_g, S_tracepoint \o S_f, S_xdp, S_perf_event, S_socket}

TwoProgObjects ==
    {<<LicenseSec, VersionSec(IntSize), ProgSec(S_kprobe \o S_f), ProgSec(name)>> :
        name \in SecondNames}

\* one map, one program and a relocation section with an entry for an
\* instruction index that is the number of instructions
OutsideObjects ==
    {<<MapsSec(<<BPF_MAP_TYPE_HASH>>, 0), SymtabSec, ProgSec(S_kprobe \o S_f),
       RelSec(3, rels)>> : rels \in {<<OutsideRel>>, <<GoodRel, OutsideRel>>}}

\* a license longer than the license buffer, before and after the version
LongLicenseObjects ==
    {<<LongLicenseSec, VersionSec(IntSize), ProgSec(S_kprobe \o S_f)>>,
     <<VersionSec(IntSize), LongLicenseSec, ProgSec(S_kprobe \o S_f)>>}

\* the objects of a process that calls load_bpf_file twice: one with maps,
\* a program with a relocation section, a relocation section for no section
\* and an empty section; and one program without relocations before and
\* after the license and the version
ReloadObjects ==
    {<<LicenseSec, VersionSec(IntSize), MapsSec(<<BPF_MAP_TYPE_HASH>>, 0),
       SymtabSec, ProgSec(S_kprobe \o S_f), RelSec(5, <<GoodRel>>),
       RelSec(0, <<GoodRel>>), Sec(S_text, SHT_PROGBITS, 0)>>,
     <<ProgSec(S_kprobe \o S_f), LicenseSec, VersionSec(IntSize)>>,
     <<LicenseSec, VersionSec(IntSize), ProgSec(S_kprobe \o S_f)>>}

Objects ==
    MapsObjects \cup ReloObjects \cup NameObjects \cup OneRelObjects
        \cup NoSymtabObjects \cup TwoProgObjects \cup LongLicenseObjects
        \cup OutsideObjects \cup ReloadObjects

(***************************************************************************)
(* The process before the first call of load_bpf_file: the globals as the  *)
(* C initializers of lines 26-33 leave them.                               *)
(***************************************************************************)
Init ==
    /\ elf \in Objects
    /\ insn = [k \in 1..Len(elf) |->
                  [n \in 1..Len(elf[k].code) |-> Insn(elf[k].code[n])]]
    /\ license = <<>>
    /\ kern_version = 0
    /\ processed_sec = {}
    /\ map_fd = [k \in 0..(MapFdLen - 1) |-> 0]
    /\ prog_fd = [k \in 0..(ProgFdLen - 1) |-> 0]
    /\ event_fd = [k \in 0..(EventFdLen - 1) |-> 0]
    /\ prog_cnt = 0
    /\ prog_array_fd = -1
    /\ symbols = 0
    /\ pc = "start"
    /\ i = 0
    /\ ret = -1
    /\ mi = 0
    /\ ri = 0
    /\ la = NoCall
    /\ nextfd = 3
    /\ errno = 0
    /\ rlimit = [cur |-> "64K", max |-> "64K"]
    /\ kprobe_events = <<>>
    /\ creates = <<>>
    /\ patches = <<>>
    /\ calls = <<>>
    /\ submits = <<>>
    /\ log = <<>>
    /\ load_cnt = 0
    /\ obj_fd = -1
    /\ closed = {}

Next ==
    \/ LoadStart
    \/ ScanEnd \/ ScanSkip \/ ScanLicense \/ ScanVersion \/ ScanMaps
    \/ ScanSymtab \/ ScanOther
    \/ CreateMap \/ LoadMapsReturn
    \/ ReloEnd \/ ReloSkip \/ ReloNoTarget \/ ReloBegin
    \/ ParseEntry \/ ParseDone
    \/ ResidEnd \/ ResidSkip \/ ResidLoad
    \/ LaEntry \/ LaLoad \/ LaGetrlimit \/ LaSetrlimit \/ LaRetry \/ LaCheck
    \/ LaSystem \/ LaOpen \/ LaRead \/ LaPerf \/ LaEnable \/ LaSetBpf
    \/ LaReturn

Spec == Init /\ [][Next]_vars

(***************************************************************************)
(* A process that calls load_bpf_file a second time.  The globals of lines *)
(* 26-33, the descriptors and the tracing files are those the first call   *)
(* has left; the locals are those of a new call (lines 247-252); the       *)
(* histories are those of the running call.                                *)
(***************************************************************************)
LoadAgain ==
    /\ pc = "done" /\ load_cnt < MaxLoads
    /\ \E obj \in ReloadObjects :
          /\ elf' = obj
          /\ insn' = [k \in 1..Len(obj) |->
                         [n \in 1..Len(obj[k].code) |-> Insn(obj[k].code[n])]]
    /\ symbols' = 0
    /\ pc' = "start" /\ i' = 0 /\ ret' = -1 /\ mi' = 0 /\ ri' = 0
    /\ creates' = <<>> /\ patches' = <<>> /\ calls' = <<>> /\ submits' = <<>>
    /\ UNCHANGED <<globals, la, env, log, process>>

InitReload == Init /\ elf \in ReloadObjects

NextReload == Next \/ LoadAgain

SpecReload == InitReload /\ [][NextReload]_vars

(***************************************************************************)
(* Properties.                                                             *)
(***************************************************************************)
\* the section indices of the object
Secs == 1..Len(elf)

\* the calls of load_and_attach for section s
CallsOf(s) == {k \in 1..Len(calls) : calls[k].sec = s}

\* load_maps has run for section m, has returned, and no bpf_create_map failed
MapsLoaded(m) ==
    /\ elf[m].name = S_maps
    /\ m \in processed_sec
    /\ pc # "load_maps"
    /\ \A k \in 1..Len(creates) : creates[k].fd >= 0

\* the number of maps created so far
Created == Cardinality({k \in 1..Len(creates) : creates[k].fd >= 0})

\* the entries of the log of the running load_and_attach for one operation
OpsOf(op) == SelectSeq(log, LAMBDA e : e.op = op)

\* the positions inside load_and_attach
LaPcs == {"la_entry", "la_load", "la_getrlimit", "la_setrlimit", "la_retry",
          "la_check", "la_system", "la_open", "la_read", "la_perf",
          "la_enable", "la_setbpf", "la_return"}

\* C1: in one run of load_bpf_file every section with a recognized name is
\* handed to load_and_attach at most once, whatever relocation sections
\* point at it.
C1_AtMostOnce ==
    \A s \in Secs :
        Recognized(elf[s].name) => Cardinality(CallsOf(s)) <= 1

\* C2: when load_maps has returned and every bpf_create_map succeeded, there
\* were exactly N = size / record size calls, the k-th with the k-th
\* definition, and map_fd[k] holds the handle the k-th call returned.
C2_CreateInOrder ==
    \A m \in Secs :
        MapsLoaded(m) =>
            LET N == elf[m].size \div MapDefSize
            IN  /\ Len(creates) = N
                /\ \A k \in 1..N :
                      /\ creates[k].index = k - 1
                      /\ creates[k].def = elf[m].defs[k]
                      /\ map_fd[k - 1] = creates[k].fd

C2_Witness ==
    /\ pc = "done" /\ ret = 0
    /\ \E m \in Secs : MapsLoaded(m) /\ elf[m].size = 2 * MapDefSize + 7
    /\ Len(creates) = 2
    /\ map_fd[1] = creates[2].fd

\* C3, as the specification states it: at the return of load_and_attach, a first submission that
\* failed with EPERM was followed by exactly one setrlimit and exactly one
\* second submission, and any other first submission by neither.
C3_ExactlyOneRetry ==
    (pc = "la_return" /\ OpsOf("prog_load") # <<>>) =>
        IF OpsOf("prog_load")[1].res.err = EPERM
        THEN Len(OpsOf("setrlimit")) = 1 /\ Len(OpsOf("prog_load")) = 2
        ELSE Len(OpsOf("setrlimit")) = 0 /\ Len(OpsOf("prog_load")) = 1

\* C3, amended: there are at most two submissions, one getrlimit and one
\* setrlimit.  After a first submission that failed with EPERM the limit is
\* read once; it is raised (once, to unlimited) exactly if it could be read,
\* the submission is repeated (once) exactly if the limit could be raised,
\* and a failing second submission makes load_and_attach return an error.
\* A first submission that succeeded or failed with another errno is followed
\* by no getrlimit, no setrlimit and no second submission.
C3_AtMostOneRetry ==
    LET loads == OpsOf("prog_load")
        gets  == OpsOf("getrlimit")
        sets  == OpsOf("setrlimit")
    IN  /\ Len(loads) <= 2 /\ Len(gets) <= 1 /\ Len(sets) <= 1
        /\ (pc = "la_return" /\ loads # <<>>) =>
              IF loads[1].res.err = EPERM
              THEN /\ Len(gets) = 1
                   /\ Len(sets) = 1 <=> gets[1].res
                   /\ Len(loads) = 2 <=> (sets # <<>> /\ sets[1].res)
                   /\ (sets # <<>> /\ sets[1].res) =>
                         rlimit = [cur |-> "RLIM_INFINITY", max |-> "RLIM_INFINITY"]
                   /\ (sets # <<>> /\ ~sets[1].res) => la.rv = -1
                   /\ loads[Len(loads)].res.fd < 0 => la.rv = -1
              ELSE gets = <<>> /\ sets = <<>> /\ Len(loads) = 1

C3_Witness ==
    /\ pc = "la_return" /\ la.rv = -1
    /\ Len(OpsOf("prog_load")) = 2
    /\ OpsOf("prog_load")[1].res.err = EPERM
    /\ OpsOf("prog_load")[2].res.fd < 0
    /\ Len(OpsOf("setrlimit")) = 1

\* the version sections whose payload is neither empty nor an int
BadVersions == {v \in Secs : elf[v].name = S_version /\ elf[v].size \notin {0, IntSize}}

\* C4, as the specification states it: with a version section of a size other than 4,
\* load_bpf_file returns an error, and when it has read that section it has
\* called bpf_create_map not once.
C4_NoMapBeforeAbort ==
    \A v \in Secs :
        (elf[v].name = S_version /\ elf[v].size # IntSize) =>
            /\ pc = "done" => ret = 1
            /\ v \in processed_sec => creates = <<>>

\* C4, amended: with a version section whose size is neither 0 nor 4,
\* load_bpf_file returns an error; bpf_create_map is never called once that
\* section has been read, and never at all unless a maps section precedes it.
C4_VersionAborts ==
    \A v \in BadVersions :
        /\ pc = "done" => ret = 1
        /\ v \in processed_sec =>
              /\ pc = "done"
              /\ \A k \in 1..Len(creates) :
                    \E m \in 1..(v - 1) :
                       elf[m].name = S_maps /\ creates[k].def \in
                          {elf[m].defs[n] : n \in 1..Len(elf[m].defs)}
        /\ (\A m \in 1..(v - 1) : elf[m].name # S_maps) => creates = <<>>

C4_Witness ==
    /\ pc = "done" /\ ret = 1
    /\ \E v \in BadVersions :
          /\ v \in processed_sec
          /\ \E m \in Secs : m > v /\ elf[m].name = S_maps /\ Len(elf[m].defs) = 2
    /\ creates = <<>>

\* the relocation sections the second pass works on
Relocs ==
    {r \in Secs : /\ elf[r].type = SHT_REL /\ elf[r].size > 0
                  /\ elf[r].info \in Secs
                  /\ elf[elf[r].info].size > 0}

\* entry k of relocation section r names an instruction of its target
InsideEntry(r, k) ==
    elf[r].rels[k].off \div InsnSize < Len(elf[elf[r].info].code)

\* the opcode of the instruction that entry k of relocation section r names
EntryCode(r, k) == elf[elf[r].info].code[elf[r].rels[k].off \div InsnSize + 1]

\* relocation section r has an entry for an instruction that is no
\* 64-bit immediate load
HasBadEntry(r) ==
    \E k \in 1..Len(elf[r].rels) :
        IF InsideEntry(r, k) THEN EntryCode(r, k) # BPF_LD_IMM_DW ELSE FALSE

\* relocation section r has an entry for an instruction behind the last one
HasOutsideEntry(r) ==
    \E k \in 1..Len(elf[r].rels) : ~InsideEntry(r, k)

\* C5: an instruction that is no 64-bit immediate load is never patched; a
\* relocation section with an entry for such an instruction hands no program
\* to load_and_attach, and its program is handed over in no pass unless
\* another relocation section without such an entry names it; the load goes
\* on and returns 0; and every program with a kprobe or kretprobe name whose
\* relocation section has no such entry, and entries for instructions of the
\* program only, has been submitted by then.
C5_BadOpcodeSkipsSection ==
    /\ \A s \in Secs : \A n \in 1..Len(insn[s]) :
          insn[s][n].code # BPF_LD_IMM_DW => insn[s][n] = Insn(elf[s].code[n])
    /\ \A k \in 1..Len(patches) :
          patches[k].idx < Len(elf[patches[k].sec].code) =>
             elf[patches[k].sec].code[patches[k].idx + 1] = BPF_LD_IMM_DW
    /\ \A r \in Relocs :
          HasBadEntry(r) =>
             /\ \A k \in 1..Len(calls) :
                   ~(calls[k].pass = "relo" /\ calls[k].at = r)
             /\ (\A q \in Relocs : elf[q].info = elf[r].info => HasBadEntry(q))
                   => CallsOf(elf[r].info) = {}
             /\ (pc = "done" /\ r \in processed_sec) => ret = 0
    /\ (pc = "done" /\ ret = 0) =>
          \A r \in Relocs :
             (/\ ~HasBadEntry(r) /\ ~HasOutsideEntry(r)
              /\ IsKprobe(elf[elf[r].info].name) \/ IsKretprobe(elf[elf[r].info].name))
             => /\ \E k \in 1..Len(calls) : calls[k].pass = "relo" /\ calls[k].at = r
                /\ \E k \in 1..Len(submits) : submits[k].sec = elf[r].info

C5_Witness ==
    /\ pc = "done" /\ ret = 0
    /\ \E r \in Relocs, q \in Relocs :
          /\ HasBadEntry(r) /\ ~HasBadEntry(q)
          /\ elf[r].info # elf[q].info
          /\ Len(elf[r].rels) = 2
          /\ \E k \in 1..Len(patches) : patches[k].rel = r
          /\ \A k \in 1..Len(submits) : submits[k].sec # elf[r].info
          /\ \E k \in 1..Len(submits) : submits[k].sec = elf[q].info /\ submits[k].fd >= 0

\* C6: no instruction is patched from a map_fd slot at or behind the number
\* of maps created, and a relocation section with such an entry hands no
\* program to load_and_attach.
C6_MapIndexChecked ==
    /\ \A k \in 1..Len(patches) : patches[k].map < Created
    /\ \A k \in 1..Len(calls) :
          calls[k].pass = "relo" =>
             \A n \in 1..Len(elf[calls[k].at].rels) :
                symbols # 0 =>
                   elf[symbols].syms[elf[calls[k].at].rels[n].sym + 1]
                      \div MapDefSize < Created

\* C7: when an instruction has been patched, the first pass is over and
\* every definition of the maps section has been created: there is one
\* successful bpf_create_map call for each, and none follows.
C7_MapsBeforePatches ==
    patches # <<>> =>
        /\ pc \notin {"start", "scan", "load_maps"}
        /\ \A k \in 1..Len(creates) : creates[k].fd >= 0
        /\ \A m \in Secs :
              (elf[m].name = S_maps /\ elf[m].size > 0) =>
                 /\ m \in processed_sec
                 /\ Len(creates) = elf[m].size \div MapDefSize

C7_Witness ==
    /\ patches # <<>> /\ pc = "parse"
    /\ Len(creates) = 1
    /\ \E m \in Secs :
          /\ elf[m].name = S_maps
          /\ patches[1].rel < m
          /\ patches[1].imm = map_fd[0] /\ map_fd[0] = creates[1].fd

\* C8: a failing bpf_create_map is the last one of the load: load_bpf_file
\* has returned an error, nothing was relocated, no program was handed over
\* or submitted, and the handles of the earlier definitions are in map_fd.
C8_CreateFailureAborts ==
    \A k \in 1..Len(creates) :
        creates[k].fd < 0 =>
            /\ k = Len(creates)
            /\ pc = "done" /\ ret = 1
            /\ patches = <<>> /\ calls = <<>> /\ submits = <<>>
            /\ \A j \in 1..(k - 1) :
                  creates[j].fd >= 0 /\ map_fd[j - 1] = creates[j].fd

C8_Witness ==
    /\ Len(creates) = 2
    /\ creates[1].fd >= 0 /\ creates[2].fd < 0
    /\ \E m \in Secs : elf[m].name = S_maps /\ elf[m].size \div MapDefSize > 2
    /\ pc = "done" /\ ret = 1

\* the definitions of program-array type of maps section m
ProgArrays(m) ==
    {k \in 1..Len(elf[m].defs) : elf[m].defs[k].type = BPF_MAP_TYPE_PROG_ARRAY}

\* the greatest element of a set of numbers
Last(S) == CHOOSE k \in S : \A j \in S : j <= k

\* C9: after a successful load_maps prog_array_fd is the handle of the last
\* definition of program-array type, and -1, its value before the load, when
\* there is none.
C9_LastProgArrayWins ==
    \A m \in Secs :
        MapsLoaded(m) =>
            IF ProgArrays(m) = {}
            THEN prog_array_fd = -1
            ELSE prog_array_fd = creates[Last(ProgArrays(m))].fd

C9_Witness ==
    /\ pc = "done" /\ ret = 0
    /\ \E m \in Secs : MapsLoaded(m) /\ ProgArrays(m) = {1, 2}
    /\ prog_array_fd = creates[2].fd
    /\ prog_array_fd # creates[1].fd

\* C10: load_and_attach for a section named "kprobe/" or "kretprobe/" writes
\* no line to kprobe_events, opens and reads no id file, opens no counter,
\* and returns an error.
C10_EmptyEventRejected ==
    (pc \in LaPcs /\ elf[la.sec].name \in {S_kprobe, S_kretprobe}) =>
        /\ pc \notin {"la_system", "la_open", "la_read", "la_perf",
                      "la_enable", "la_setbpf"}
        /\ \A k \in 1..Len(log) :
              log[k].op \notin {"system", "open", "read", "perf_event_open",
                                "ioctl_enable", "ioctl_set_bpf"}
        /\ kprobe_events = <<>>
        /\ pc = "la_return" => la.rv = -1

C10_Witness ==
    /\ pc = "la_return" /\ la.rv = -1
    /\ elf[la.sec].name = S_kretprobe
    /\ la.event = <<>>
    /\ log # <<>> /\ log[Len(log)].op = "prog_load" /\ log[Len(log)].res.fd >= 0

\* the names load_bpf_file hands over that are no probe names
OtherKind(name) == Recognized(name) /\ ~IsKprobe(name) /\ ~IsKretprobe(name)

\* C11: a section named tracepoint/..., xdp..., perf_event... or socket... is
\* never submitted; load_and_attach called for it makes no call into the
\* kernel or the tracing files, returns -1, and leaves prog_cnt, prog_fd,
\* event_fd and kprobe_events as they were.
C11_UnknownEvent ==
    /\ [](/\ \A k \in 1..Len(submits) : ~OtherKind(elf[submits[k].sec].name)
          /\ (pc \in LaPcs /\ OtherKind(elf[la.sec].name)) =>
                /\ pc \in {"la_entry", "la_return"}
                /\ log = <<>>
                /\ pc = "la_return" => la.rv = -1)
    /\ [][(pc \in LaPcs /\ OtherKind(elf[la.sec].name)) =>
             /\ prog_cnt' = prog_cnt /\ prog_fd' = prog_fd
             /\ event_fd' = event_fd /\ kprobe_events' = kprobe_events
             /\ nextfd' = nextfd]_vars

C11_Witness ==
    /\ pc = "la_return" /\ la.rv = -1
    /\ elf[la.sec].name = S_tracepoint \o S_f
    /\ log = <<>>
    /\ prog_cnt = 1 /\ prog_fd[0] = submits[1].fd
    /\ \A k \in 1..Len(submits) : submits[k].sec # la.sec

\* every license section of the object fits the license buffer
LicenseFits ==
    \A l \in Secs : elf[l].name = S_license => elf[l].size <= LicenseLen

\* C12: when bpf_prog_load is called the first pass is over, every license
\* and version section has been read, and the license and the kernel version
\* passed are the contents of those sections (for a license that fits the
\* license buffer), wherever these sections stand in the object.
C12_MetadataBeforeSubmit ==
    submits # <<>> =>
        /\ pc \notin {"start", "scan", "load_maps"}
        /\ \A m \in Secs :
              (elf[m].name \in {S_license, S_version} /\ elf[m].size > 0)
                 => m \in processed_sec
        /\ LicenseFits =>
              \A k \in 1..Len(submits) :
                 /\ \A l \in Secs :
                       (elf[l].name = S_license /\ elf[l].size > 0)
                          => submits[k].license = elf[l].bytes
                 /\ \A v \in Secs :
                       (elf[v].name = S_version /\ elf[v].size > 0)
                          => submits[k].kern_version = elf[v].word

C12_Witness ==
    /\ submits # <<>> /\ submits[1].sec = 1
    /\ Len(elf) = 3 /\ elf[2].name = S_license /\ elf[3].name = S_version
    /\ submits[1].license = <<"G", "P", "L", "NUL">>
    /\ submits[1].kern_version = elf[3].word /\ elf[3].word # 0

\* the running load_and_attach has given up the submission: its last
\* bpf_prog_load failed, and it was the second one or failed with another
\* errno than EPERM
SubmitGivenUp ==
    LET tries == OpsOf("prog_load")
    IN  /\ tries # <<>>
        /\ tries[Len(tries)].res.fd < 0
        /\ IF Len(tries) = 1 THEN tries[1].res.err # EPERM ELSE TRUE

\* C13: when load_and_attach returns after it has given up the submission,
\* load_bpf_file goes on with no further section: its next step is to return
\* an error.
C13_SubmitFailureAborts ==
    [][(pc = "la_return" /\ SubmitGivenUp) => (pc' = "done" /\ ret' # 0)]_vars

\* parse_relo_and_apply has returned an error for relocation section r
RelocFailed(r) ==
    /\ HasBadEntry(r)
    /\ r \in processed_sec
    /\ ~(pc = "parse" /\ i = r)

\* C14: while a relocation section is worked on, it and its target are
\* marked processed; a program section named by a relocation section that
\* has failed is submitted not once in the whole load; and the residual pass
\* hands over no section that a relocation section was worked on for.
C14_FailedReloNeverSubmitted ==
    /\ pc = "parse" => {i, elf[i].info} \subseteq processed_sec
    /\ \A r \in Relocs :
          RelocFailed(r) =>
             \A k \in 1..Len(submits) : submits[k].sec # elf[r].info
    /\ \A k \in 1..Len(calls) :
          calls[k].pass = "resid" =>
             \A r \in Relocs : elf[r].info # calls[k].sec

\* the steps of load_and_attach in the order of the specification, and
\* whether the call of a log entry succeeded
StepNo(op) ==
    CASE op = "prog_load" -> 1
      [] op = "system" -> 2
      [] op = "open" -> 3
      [] op = "read" -> 4
      [] op = "perf_event_open" -> 5
      [] op = "ioctl_enable" -> 6
      [] op = "ioctl_set_bpf" -> 7
      [] OTHER -> 0

StepOk(e) ==
    CASE e.op = "prog_load" -> e.res.fd >= 0
      [] e.op = "system" -> e.res.res = "zero"
      [] e.op = "open" -> e.res
      [] e.op = "read" -> e.res >= 0 /\ e.res < BufLen
      [] e.op = "perf_event_open" -> e.res.ok
      [] e.op = "ioctl_enable" -> e.res.ok
      [] e.op = "ioctl_set_bpf" -> e.res.ok
      [] OTHER -> TRUE

\* the line to append for a section of the given name: "p:pX X" for
\* "kprobe/X" and "r:rX X" for "kretprobe/X"
LineFor(name) ==
    LET entry == SubSeq(name, 1, 7) = <<"k", "p", "r", "o", "b", "e", "/">>
        X == IF entry THEN SubSeq(name, 8, Len(name))
                      ELSE SubSeq(name, 11, Len(name))
        c == IF entry THEN "p" ELSE "r"
    IN  <<c, ":", c>> \o X \o <<" ">> \o X

\* C15: in a call of load_and_attach the steps are made in the order
\* submission, registration, identifier, counter open, enable, bind; a step
\* is made only when every step before it has been made and has succeeded;
\* the line registered is "p:pX X" or "r:rX X"; and in a call from the
\* relocation pass every entry of the relocation section has been patched
\* into the instructions submitted.
C15_StepsInOrder ==
    pc \in LaPcs =>
        /\ LET steps == SelectSeq(log, LAMBDA e : StepNo(e.op) > 0)
           IN  /\ \A j \in 1..Len(steps) : \A k \in (j + 1)..Len(steps) :
                     /\ StepNo(steps[j].op) <= StepNo(steps[k].op)
                     /\ StepNo(steps[k].op) = StepNo(steps[j].op)
                           => steps[k].op = "prog_load"
               /\ \A k \in 1..Len(steps) : \A n \in 1..(StepNo(steps[k].op) - 1) :
                     \E j \in 1..(k - 1) :
                        StepNo(steps[j].op) = n /\ StepOk(steps[j])
        /\ \A k \in 1..Len(log) :
              log[k].op = "system" => log[k].res.line = LineFor(elf[la.sec].name)
        /\ (la.back = "relo" /\ OpsOf("prog_load") # <<>>) =>
              \A n \in 1..Len(elf[i].rels) :
                 \E q \in 1..Len(patches) :
                    /\ patches[q].rel = i
                    /\ patches[q].idx = elf[i].rels[n].off \div InsnSize
                    /\ patches[q].idx < Len(insn[la.sec]) =>
                          submits[Len(submits)].prog[patches[q].idx + 1].src_reg
                             = BPF_PSEUDO_MAP_FD

\* C16: when the command that appends the line to kprobe_events has failed,
\* by system() returning a negative value or by a non-zero exit status,
\* load_and_attach makes no further call (it opens no id file and no
\* counter) and returns an error.
C16_RegisterFailureStops ==
    pc \in LaPcs =>
        \A k \in 1..Len(log) :
            (log[k].op = "system" /\ log[k].res.res # "zero") =>
                /\ k = Len(log)
                /\ pc = "la_return" /\ la.rv = -1

\* C17: never more bytes than the license buffer holds have been copied to
\* it, and once a license section longer than the buffer has been read
\* load_bpf_file has returned an error.
C17_LicenseBounded ==
    /\ Len(license) <= LicenseLen
    /\ \A l \in Secs :
          (/\ elf[l].name = S_license /\ elf[l].size > LicenseLen
           /\ l \in processed_sec)
          => pc = "done" /\ ret = 1

\* C18: no instruction index at or behind the number of instructions of
\* the target is ever patched, and a relocation section with an entry for
\* such an index hands no program to load_and_attach.
C18_InsnIndexChecked ==
    /\ \A k \in 1..Len(patches) :
          patches[k].idx < Len(elf[patches[k].sec].code)
    /\ \A r \in Relocs :
          HasOutsideEntry(r) =>
             \A k \in 1..Len(calls) :
                ~(calls[k].pass = "relo" /\ calls[k].at = r)

\* the sections the residual pass of a first load hands over: those with a
\* recognized name that no relocation section names
Residual(s) ==
    /\ Recognized(elf[s].name) /\ elf[s].size > 0 /\ elf[s].type # SHT_REL
    /\ \A r \in Relocs : elf[r].info # s

\* the successful submissions of the running load whose handle has been
\* stored (line 90 follows the return of bpf_prog_load)
Stored ==
    LET ok == SelectSeq(submits, LAMBDA e : e.fd >= 0)
    IN  IF pc = "la_check" /\ la.fd >= 0 THEN SubSeq(ok, 1, Len(ok) - 1) ELSE ok

\* C19: every load does what the first load of a process does: when it has
\* returned 0 it has handed over, once, every section with a recognized name
\* that no relocation section names, and the handle of its k-th successful
\* submission is at prog_fd[k - 1].
C19_LoadOwnsState ==
    /\ (pc = "done" /\ ret = 0) =>
          \A s \in Secs : Residual(s) => Cardinality(CallsOf(s)) = 1
    /\ \A k \in 1..Len(Stored) : prog_fd[k - 1] = Stored[k].fd

\* the handles recorded: those of the maps created and of the programs
\* submitted and stored
MapHandles == {creates[k].fd : k \in {j \in 1..Len(creates) : creates[j].fd >= 0}}
ProgHandles == {prog_fd[k] : k \in 0..(prog_cnt - 1)}

====
